---- MODULE Spec2Model ----
(***************************************************************************)
(* A model of brief, a brainfuck interpreter (src/brief.c).                *)
(*                                                                         *)
(* The state is that of main(): the option values, the source file and     *)
(* the read position in it, the instruction memory im[0..in-1], the loop   *)
(* stack ls, the cell memory cm, the cell index ci, the instruction index  *)
(* ii, and the standard streams.  One action models one iteration of the   *)
(* scanning loop (one getc), one iteration of the dump loop, one executed  *)
(* instruction, or one repetition of a ',' or '.' instruction.             *)
(*                                                                         *)
(* Characters are their ASCII codes, as in the C source.                   *)
(***************************************************************************)
EXTENDS Integers, Sequences, FiniteSets, TLC

\* ---------------------------------------------------------------- #defines
BF_END_ERROR  == 101   \* 'e'
BF_END_IGNORE == 105   \* 'i'
BF_END_WRAP   == 119   \* 'w'
BF_OP_VINC    == 43    \* '+'
BF_OP_VDEC    == 45    \* '-'
BF_OP_PINC    == 62    \* '>'
BF_OP_PDEC    == 60    \* '<'
BF_OP_LSTART  == 91    \* '['
BF_OP_LEND    == 93    \* ']'
BF_OP_IN      == 44    \* ','
BF_OP_OUT     == 46    \* '.'
BF_EOF_ZERO   == 48    \* '0'
BF_EOF_MIN    == 97    \* 'a'
BF_EOF_MAX    == 98    \* 'b'
BF_EOF_NEGONE == 110   \* 'n'
BF_EOF_NOCHG  == 120   \* 'x'
BF_MODE_DUMP  == 100   \* 'd'
BF_MODE_RUN   == 114   \* 'r'

\* EOF as returned by getc/getchar (stdio.h).
EOF == 0 - 1

\* A character that is none of the eight operators ('#'), and an option
\* letter that is none of the recognised ones ('?').
OtherChar == 35
BadOption == 63

\* ------------------------------------------------------------------ bounds
MaxSrc     == 3   \* longest source file over the full alphabet
MaxLoopSrc == 5   \* longest source file of brackets
MaxDumpSrc == 4   \* longest source file tried in every mode
MaxRunSrc  == 3   \* longest source file tried under every policy
MaxCells   == 2   \* largest -c
MaxInput   == 1   \* longest standard input
MaxOut     == 5   \* '.' stops once this many bytes are on standard output
MaxGarbage == 1   \* indeterminate values range over -MaxGarbage-1 .. MaxGarbage
MaxCount   == 16  \* most "+" of the counting loops, the one of 255 "+" aside
HelloCells == 7   \* cells of the Hello source
MaxShortSrc == 2 \* longest source file taken to its end in both modes

\* The content of memory that malloc returned and nobody wrote yet
\* (im[x].quantity and im[x].loop of a fresh instruction).  Reading it
\* yields any value of Garbage.
Indeterminate == 0 - 1000
Garbage    == (0 - MaxGarbage - 1)..MaxGarbage
GarbageQty == 0..MaxGarbage

\* -------------------------------------------------------------- pure parts
Foldable == {BF_OP_VINC, BF_OP_VDEC, BF_OP_PINC, BF_OP_PDEC, BF_OP_IN, BF_OP_OUT}
Operators == Foldable \cup {BF_OP_LSTART, BF_OP_LEND}
Alphabet == Operators \cup {OtherChar}

\* C's % on long: the quotient truncates toward zero, so the remainder has
\* the sign of the dividend (b > 0 here).
CRem(a, b) == IF a >= 0 THEN a % b ELSE 0 - ((0 - a) % b)

\* long wrap(long value, long low, long high)
wrap(value, low, high) == CRem(value - low, 1 + high - low) + low

\* Byte with a defect: the value is written as it is.
ByteRaw(c) == c

\* putchar(c) writes (unsigned char) c.
Byte(c) == c % 256

\* printf("%ld", n): the decimal digits of n, '-' first when n < 0.
RECURSIVE Digits(_)
Digits(n) == IF n < 10 THEN <<48 + n>> ELSE Digits(n \div 10) \o <<48 + (n % 10)>>
FmtLong(n) == IF n < 0 THEN <<45>> \o Digits(0 - n) ELSE Digits(n)

\* All sequences over S of length 0..n.
SeqsUpTo(S, n) == UNION {[1..m -> S] : m \in 0..n}

\* ------------------------------------------------------------------- state
VARIABLES
  ce,      \* EOF behaviour (-e)
  cn,      \* number of cells to allocate (-c)
  cw,      \* cell wrap behaviour (-w)
  mode,    \* runtime mode (-m)
  va,      \* minimum value (-a)
  vb,      \* maximum value (-b)
  vw,      \* value wrap behaviour (-v)
  file,    \* the characters of the source file fp
  fpos,    \* how many of them getc has returned
  stdin,   \* the bytes on standard input
  inpos,   \* how many of them getchar has returned
  stdout,  \* the bytes written to standard output
  im,      \* instruction memory: im[0] .. im[in-1]
  in,      \* number of used instructions
  ii,      \* current instruction index
  ls,      \* loop stack: ls[1] .. ls[ln] here is ls[0] .. ls[ln-1] in C
  ln,      \* loop stack used
  ci,      \* current cell index
  cm,      \* cell memory: cm[0] .. cm[cn-1]
  j,       \* counter of the dump, ',' and '.' loops
  pc,      \* where main() is: "compile", "dump", "run", "in", "out",
           \* or how it ended: "exit0", "exit1", "crashed"
  written, \* history: the bytes that '.' instructions wrote
  ran      \* history: whether the execution loop has executed an instruction

config == <<ce, cn, cw, mode, va, vb, vw, file, stdin>>
vars == <<ce, cn, cw, mode, va, vb, vw, file, fpos, stdin, inpos, stdout,
          im, in, ii, ls, ln, ci, cm, j, pc, written, ran>>

\* The option values getopt can leave behind (lines 103-122).
EndPolicies == {BF_END_ERROR, BF_END_IGNORE, BF_END_WRAP, BadOption}
EofPolicies == {BF_EOF_ZERO, BF_EOF_MIN, BF_EOF_MAX, BF_EOF_NEGONE, BF_EOF_NOCHG,
                BadOption}
Modes == {BF_MODE_DUMP, BF_MODE_RUN, BadOption}
Ranges == {<<0, 2>>, <<0 - 1, 1>>, <<1, 2>>, <<0, 255>>}
EofRanges == {<<0, 2>>, <<0 - 1, 1>>}
InputBytes == {1, 255}

\* The state when the scanning loop starts (line 127), the options parsed.
InitMain ==
  /\ fpos = 0 /\ inpos = 0 /\ stdout = <<>>
  /\ im = <<>> /\ in = 0 /\ ii = 0
  /\ ls = <<>> /\ ln = 0
  /\ ci = 0 /\ cm = <<>> /\ j = 0
  /\ pc = "compile" /\ written = <<>> /\ ran = FALSE

\* Every source over the full alphabet, run under the default policies.
InitSources ==
  /\ file \in SeqsUpTo(Alphabet, MaxSrc)
  /\ ce = BF_EOF_ZERO /\ cw = BF_END_ERROR /\ vw = BF_END_WRAP
  /\ mode = BF_MODE_RUN
  /\ va = 0 /\ vb = 2 /\ cn = MaxCells
  /\ stdin = <<>>

\* Longer sources of brackets, well formed or not, run the same way.
InitLoops ==
  /\ file \in SeqsUpTo({BF_OP_LSTART, BF_OP_LEND, BF_OP_VINC}, MaxLoopSrc)
  /\ ce = BF_EOF_ZERO /\ cw = BF_END_ERROR /\ vw = BF_END_WRAP
  /\ mode = BF_MODE_RUN
  /\ va = 0 /\ vb = 2 /\ cn = 1
  /\ stdin = <<>>

\* Every mode (-m).
InitModes ==
  /\ file \in SeqsUpTo({BF_OP_VINC, BF_OP_OUT, BF_OP_LSTART}, MaxDumpSrc)
  /\ ce = BF_EOF_ZERO /\ cw = BF_END_ERROR /\ vw = BF_END_WRAP
  /\ mode \in Modes
  /\ va = 0 /\ vb = 2 /\ cn = 1
  /\ stdin = <<>>

\* Every value policy (-v) and range (-a, -b), on sources of value
\* instructions.
InitValue ==
  /\ file \in SeqsUpTo({BF_OP_VINC, BF_OP_VDEC, BF_OP_IN}, MaxRunSrc)
  /\ vw \in EndPolicies
  /\ \E r \in Ranges : va = r[1] /\ vb = r[2]
  /\ ce = BF_EOF_ZERO /\ cw = BF_END_ERROR /\ mode = BF_MODE_RUN
  /\ cn = 1
  /\ stdin \in SeqsUpTo(InputBytes, MaxInput)

\* Every pointer policy (-w) and cell count (-c), on sources of pointer
\* instructions.
InitPointer ==
  /\ file \in SeqsUpTo({BF_OP_PINC, BF_OP_PDEC, BF_OP_VINC, BF_OP_OUT}, MaxRunSrc)
  /\ cw \in EndPolicies
  /\ cn \in (1..MaxCells) \cup {10}
  /\ ce = BF_EOF_ZERO /\ vw = BF_END_WRAP /\ mode = BF_MODE_RUN
  /\ va = 0 /\ vb = 2
  /\ stdin = <<>>

\* Every EOF policy (-e), on sources of ',' and '.'.
InitEof ==
  /\ file \in SeqsUpTo({BF_OP_IN, BF_OP_OUT, BF_OP_VINC}, MaxRunSrc)
  /\ ce \in EofPolicies
  /\ \E r \in EofRanges : va = r[1] /\ vb = r[2]
  /\ vw = BF_END_WRAP /\ cw = BF_END_ERROR /\ mode = BF_MODE_RUN
  /\ cn = 1
  /\ stdin \in SeqsUpTo(InputBytes, MaxInput)

\* The values of the options when none is given (lines 84-99); those of
\* the options other than -c.
DefaultCells == 30000
DefaultMax == 255
Defaults ==
  /\ ce = BF_EOF_ZERO /\ cw = BF_END_ERROR
  /\ mode = BF_MODE_RUN
  /\ va = 0 /\ vb = DefaultMax /\ vw = BF_END_WRAP

\* The source "+" k times, then "[-]".
CountingLoop(k) ==
  [x \in 1..(k + 3) |->
     IF x <= k THEN BF_OP_VINC
     ELSE IF x = k + 1 THEN BF_OP_LSTART
     ELSE IF x = k + 2 THEN BF_OP_VDEC ELSE BF_OP_LEND]

\* The source
\* ++++++++[>++++[>++>+++>+++>+<<<<-]>+>+>->>+[<]<-]>>.>---.+++++++..+++.
Hello ==
  << 43, 43, 43, 43, 43, 43, 43, 43, 91, 62, 43, 43, 43, 43,
     91, 62, 43, 43, 62, 43, 43, 43, 62, 43, 43, 43, 62, 43,
     60, 60, 60, 60, 45, 93, 62, 43, 62, 43, 62, 45, 62, 62,
     43, 91, 60, 93, 60, 45, 93, 62, 62, 46, 62, 45, 45, 45,
     46, 43, 43, 43, 43, 43, 43, 43, 46, 46, 43, 43, 43, 46 >>

\* The shortest counting loops and the longest that stays under the
\* maximum value, no option given, or -c 1 alone.
InitCounting ==
  /\ Defaults /\ cn \in {1, DefaultCells}
  /\ file \in {CountingLoop(k) : k \in (1..MaxCount) \cup {DefaultMax}}
  /\ stdin = <<>>

\* The Hello source, no option given, or -c alone with as many cells as
\* the source uses.
InitHello ==
  /\ Defaults /\ cn \in {HelloCells, DefaultCells}
  /\ file = Hello
  /\ stdin = <<>>

\* The shortest sources over the full alphabet, dumped or run.
InitShort ==
  /\ file \in SeqsUpTo(Alphabet, MaxShortSrc)
  /\ ce = BF_EOF_ZERO /\ cw = BF_END_ERROR /\ vw = BF_END_WRAP
  /\ mode \in {BF_MODE_DUMP, BF_MODE_RUN}
  /\ va = 0 /\ vb = 2 /\ cn = 1
  /\ stdin = <<>>

Init ==
  /\ InitMain
  /\ \/ InitSources \/ InitLoops \/ InitModes
     \/ InitValue \/ InitPointer \/ InitEof

\* ------------------------------------------------------------------ ending
\* void die(const char *s, ...): the message goes to stderr, its newline to
\* stdout (putchar(10)), and the process exits with status 1.
die == stdout' = Append(stdout, 10) /\ pc' = "exit1"

\* Undefined behaviour that ends the process: a wild read or write that
\* the memory protection catches (SIGSEGV; the status is not 1).
crash == pc' = "crashed" /\ UNCHANGED stdout

\* ------------------------------------------------------------ the compiler
\* im with one more used instruction (++in; im[in - 1].instruction = i):
\* the fields the code does not assign keep what malloc left there.
Appended(i, quantity, loop) ==
  [x \in 0..in |-> IF x < in THEN im[x]
                   ELSE [instruction |-> i, quantity |-> quantity, loop |-> loop]]

\* The frame of one iteration of the scanning loop.
Scanned ==
  /\ fpos' = fpos + 1
  /\ UNCHANGED <<config, stdin, inpos, stdout, ci, cm, j, written, ran>>

\* Fold with a defect: every character starts a new instruction.
FoldNever ==
  /\ pc = "compile" /\ fpos < Len(file)
  /\ file[fpos + 1] \in Foldable
  /\ im' = Appended(file[fpos + 1], 1, Indeterminate)
  /\ in' = in + 1 /\ ii' = ii + 1
  /\ UNCHANGED <<ls, ln, pc>>
  /\ Scanned

\* Lines 129-145: '+', '-', '>', '<', ',' and '.'.
Fold ==
  /\ pc = "compile" /\ fpos < Len(file)
  /\ LET i == file[fpos + 1] IN
       /\ i \in Foldable
       /\ IF in > 0 /\ i = im[in - 1].instruction
            THEN /\ im' = [im EXCEPT ![in - 1].quantity = @ + 1]
                 /\ UNCHANGED <<in, ii>>
            ELSE /\ im' = Appended(i, 1, Indeterminate)
                 /\ in' = in + 1
                 /\ ii' = ii + 1
  /\ UNCHANGED <<ls, ln, pc>>
  /\ Scanned

\* LStart with a defect: the index pushed is the one after the '['.
LStartOffByOne ==
  /\ pc = "compile" /\ fpos < Len(file)
  /\ file[fpos + 1] = BF_OP_LSTART
  /\ im' = Appended(BF_OP_LSTART, Indeterminate, Indeterminate)
  /\ in' = in + 1 /\ ln' = ln + 1 /\ ii' = ii + 1
  /\ ln >= 0 /\ ls' = Append(ls, ii + 1)
  /\ UNCHANGED pc
  /\ Scanned

\* Lines 146-155: '['.  With ln < 0 (after an unmatched ']') the store
\* ls[ln - 1] = ii lands before the array: it is lost, or it ends the run.
LStart ==
  /\ pc = "compile" /\ fpos < Len(file)
  /\ file[fpos + 1] = BF_OP_LSTART
  /\ im' = Appended(BF_OP_LSTART, Indeterminate, Indeterminate)
  /\ in' = in + 1
  /\ ln' = ln + 1
  /\ ii' = ii + 1
  /\ \/ ln >= 0 /\ ls' = Append(ls, ii) /\ UNCHANGED pc
     \/ ln < 0 /\ UNCHANGED <<ls, pc>>
     \/ ln < 0 /\ UNCHANGED ls /\ pc' = "crashed"
  /\ Scanned

\* Lines 156-165: ']'.  With ln >= 1 the top of the stack is the matching
\* '['.  With ln <= 0 the code reads ls[ln - 1] all the same: the value g
\* is indeterminate, the store im[g].loop = ii hits the instruction g when
\* there is one and is lost otherwise, or the access ends the run.
LEnd ==
  /\ pc = "compile" /\ fpos < Len(file)
  /\ file[fpos + 1] = BF_OP_LEND
  /\ in' = in + 1
  /\ ln' = ln - 1
  /\ ii' = ii + 1
  /\ \/ /\ ln >= 1
        /\ im' = [Appended(BF_OP_LEND, Indeterminate, ls[ln])
                    EXCEPT ![ls[ln]].loop = ii]
        /\ ls' = SubSeq(ls, 1, ln - 1)
        /\ UNCHANGED pc
     \/ /\ ln <= 0
        /\ \E g \in Garbage :
             im' = IF g \in 0..in
                     THEN [Appended(BF_OP_LEND, Indeterminate, g)
                             EXCEPT ![g].loop = ii]
                     ELSE Appended(BF_OP_LEND, Indeterminate, g)
        /\ UNCHANGED <<ls, pc>>
     \/ /\ ln <= 0
        /\ im' = Appended(BF_OP_LEND, Indeterminate, Indeterminate)
        /\ UNCHANGED ls
        /\ pc' = "crashed"
  /\ Scanned

\* Skip with a defect: the character is stored as an instruction.
SkipStored ==
  /\ pc = "compile" /\ fpos < Len(file)
  /\ file[fpos + 1] \notin Operators
  /\ im' = Appended(file[fpos + 1], 1, Indeterminate)
  /\ in' = in + 1 /\ ii' = ii + 1
  /\ UNCHANGED <<ls, ln, pc>>
  /\ Scanned

\* Line 166: any other character.
Skip ==
  /\ pc = "compile" /\ fpos < Len(file)
  /\ file[fpos + 1] \notin Operators
  /\ UNCHANGED <<im, in, ii, ls, ln, pc>>
  /\ Scanned

\* ModeSwitch with a defect: the mode is not looked at, and the
\* instructions are dumped.
ModeSwitchDumps ==
  /\ pc = "compile" /\ fpos = Len(file)
  /\ pc' = "dump" /\ ii' = 0 /\ j' = 0
  /\ UNCHANGED <<cm, stdout>>
  /\ UNCHANGED <<config, fpos, inpos, im, in, ls, ln, ci, written, ran>>

\* Lines 127 and 169-183, 291: getc returns EOF; the loop stack is freed
\* whatever it holds, and the mode selects what happens to the instructions.
ModeSwitch ==
  /\ pc = "compile" /\ fpos = Len(file)
  /\ CASE mode = BF_MODE_DUMP ->
            /\ pc' = "dump" /\ ii' = 0 /\ j' = 0
            /\ UNCHANGED <<cm, stdout>>
       [] mode = BF_MODE_RUN ->
            /\ pc' = "run" /\ ii' = 0
            /\ cm' = [x \in 0..(cn - 1) |-> 0]
            /\ UNCHANGED <<j, stdout>>
       [] OTHER ->
            /\ die
            /\ UNCHANGED <<ii, cm, j>>
  /\ UNCHANGED <<config, fpos, inpos, im, in, ls, ln, ci, written, ran>>

\* ---------------------------------------------------------------- the dump
\* Lines 173-178: one instruction is printed as "%c %ld" and a tab, or a
\* newline after every eighth.  The quantity of a bracket was never stored.
DumpOne ==
  /\ pc = "dump" /\ ii < in
  /\ \E q \in (IF im[ii].quantity = Indeterminate THEN Garbage
               ELSE {im[ii].quantity}) :
       stdout' = stdout \o <<im[ii].instruction, 32>> \o FmtLong(q)
                        \o <<IF (j + 1) % 8 # 0 THEN 9 ELSE 10>>
  /\ j' = j + 1
  /\ ii' = ii + 1
  /\ UNCHANGED <<config, fpos, inpos, im, in, ls, ln, ci, cm, pc, written, ran>>

\* Lines 173, 179-180, 293-294: the end of the dump.
DumpEnd ==
  /\ pc = "dump" /\ ii >= in
  /\ stdout' = Append(stdout, 10)
  /\ pc' = "exit0"
  /\ UNCHANGED <<config, fpos, inpos, im, in, ii, ls, ln, ci, cm, j, written, ran>>

\* ------------------------------------------------------------ the executor
\* Line 183: the loop goes on while ii < in.
Running == pc = "run" /\ ii < in

\* im[ii].  A negative ii (a jump through an indeterminate loop field) reads
\* before the array, where the allocator keeps its own words: they are
\* taken to spell no operator, so that the instruction is skipped (RunOther)
\* unless the access ends the run (WildAccess).
Fetch ==
  IF ii >= 0 THEN {im[ii]}
  ELSE [instruction : {OtherChar}, quantity : GarbageQty, loop : Garbage]

InCells == ci \in 0..(cn - 1)

\* The values a read of cm[ci] can yield, and cm after cm[ci] = v: outside
\* the array the read yields anything and the store is lost.
CellRead == IF InCells THEN {cm[ci]} ELSE Garbage
Stored(v) == IF InCells THEN [cm EXCEPT ![ci] = v] ELSE cm

\* The frame of an instruction that goes on to the next one (ii++).
Next1 == ii' = ii + 1 /\ UNCHANGED <<pc, stdout>>
NoIO == UNCHANGED <<config, fpos, inpos, im, in, ls, ln, j, written>>

\* VInc with a defect: under 'i' an overflow leaves the cell as it was.
VIncIgnoreKeeps ==
  /\ Running
  /\ \E ins \in Fetch, c \in CellRead :
       /\ ins.instruction = BF_OP_VINC
       /\ IF c + ins.quantity > vb
            THEN CASE vw = BF_END_ERROR  -> die /\ UNCHANGED <<cm, ii>>
                   [] vw = BF_END_IGNORE -> cm' = Stored(c) /\ Next1
                   [] vw = BF_END_WRAP   ->
                        cm' = Stored(wrap(c + ins.quantity, va, vb)) /\ Next1
                   [] OTHER              -> die /\ UNCHANGED <<cm, ii>>
            ELSE cm' = Stored(c + ins.quantity) /\ Next1
  /\ ran' = TRUE
  /\ UNCHANGED ci /\ NoIO

\* Lines 185-202: '+'.
VInc ==
  /\ Running
  /\ \E ins \in Fetch, c \in CellRead :
       /\ ins.instruction = BF_OP_VINC
       /\ IF c + ins.quantity > vb
            THEN CASE vw = BF_END_ERROR  -> die /\ UNCHANGED <<cm, ii>>
                   [] vw = BF_END_IGNORE -> cm' = Stored(vb) /\ Next1
                   [] vw = BF_END_WRAP   ->
                        cm' = Stored(wrap(c + ins.quantity, va, vb)) /\ Next1
                   [] OTHER              -> die /\ UNCHANGED <<cm, ii>>
            ELSE cm' = Stored(c + ins.quantity) /\ Next1
  /\ ran' = TRUE
  /\ UNCHANGED ci /\ NoIO

\* Lines 203-220: '-'.
VDec ==
  /\ Running
  /\ \E ins \in Fetch, c \in CellRead :
       /\ ins.instruction = BF_OP_VDEC
       /\ IF c - ins.quantity < va
            THEN CASE vw = BF_END_ERROR  -> die /\ UNCHANGED <<cm, ii>>
                   [] vw = BF_END_IGNORE -> cm' = Stored(va) /\ Next1
                   [] vw = BF_END_WRAP   ->
                        cm' = Stored(wrap(c - ins.quantity, va, vb)) /\ Next1
                   [] OTHER              -> die /\ UNCHANGED <<cm, ii>>
            ELSE cm' = Stored(c - ins.quantity) /\ Next1
  /\ ran' = TRUE
  /\ UNCHANGED ci /\ NoIO

\* Lines 221-238: '>'.
PInc ==
  /\ Running
  /\ \E ins \in Fetch :
       /\ ins.instruction = BF_OP_PINC
       /\ IF ci + ins.quantity > cn - 1
            THEN CASE cw = BF_END_ERROR  -> die /\ UNCHANGED <<ci, ii>>
                   [] cw = BF_END_IGNORE -> ci' = cn - 1 /\ Next1
                   [] cw = BF_END_WRAP   ->
                        ci' = wrap(ci + ins.quantity, 0, cn) /\ Next1
                   [] OTHER              -> die /\ UNCHANGED <<ci, ii>>
            ELSE ci' = ci + ins.quantity /\ Next1
  /\ ran' = TRUE
  /\ UNCHANGED cm /\ NoIO

\* Lines 239-256: '<'.
PDec ==
  /\ Running
  /\ \E ins \in Fetch :
       /\ ins.instruction = BF_OP_PDEC
       /\ IF ci - ins.quantity < 0
            THEN CASE cw = BF_END_ERROR  -> die /\ UNCHANGED <<ci, ii>>
                   [] cw = BF_END_IGNORE -> ci' = 0 /\ Next1
                   [] cw = BF_END_WRAP   ->
                        ci' = wrap(ci - ins.quantity, 0, cn) /\ Next1
                   [] OTHER              -> die /\ UNCHANGED <<ci, ii>>
            ELSE ci' = ci - ins.quantity /\ Next1
  /\ ran' = TRUE
  /\ UNCHANGED cm /\ NoIO

\* Lines 257-258: ',' starts its loop (j = im[ii].quantity).
In ==
  /\ Running
  /\ \E ins \in Fetch :
       /\ ins.instruction = BF_OP_IN
       /\ j' = ins.quantity
  /\ pc' = "in"
  /\ ran' = TRUE
  /\ UNCHANGED <<config, fpos, inpos, stdout, im, in, ii, ls, ln, ci, cm, written>>

\* What getchar returns: the next byte of standard input, or EOF.
GetChar == IF inpos < Len(stdin) THEN stdin[inpos + 1] ELSE EOF

\* InRep with a defect: the value stored at the end of the input is clamped
\* into [va, vb].
InRepClamped ==
  /\ pc = "in" /\ j # 0
  /\ LET k == GetChar
         e == CASE ce = BF_EOF_ZERO -> 0 [] ce = BF_EOF_MIN -> va
                [] ce = BF_EOF_MAX -> vb [] OTHER -> 0 - 1
     IN
       /\ inpos' = IF k = EOF THEN inpos ELSE inpos + 1
       /\ IF k = EOF /\ ce \notin {BF_EOF_ZERO, BF_EOF_MIN, BF_EOF_MAX,
                                   BF_EOF_NEGONE, BF_EOF_NOCHG}
            THEN die /\ UNCHANGED cm
            ELSE /\ cm' = Stored(IF k # EOF THEN k
                                 ELSE IF e < va THEN va
                                 ELSE IF e > vb THEN vb ELSE e)
                 /\ UNCHANGED <<pc, stdout>>
  /\ j' = IF pc' = "exit1" THEN j ELSE j - 1
  /\ UNCHANGED <<config, fpos, im, in, ii, ls, ln, ci, written, ran>>

\* Lines 258-273: one repetition of ','.
InRep ==
  /\ pc = "in" /\ j # 0
  /\ LET k == GetChar IN
       /\ inpos' = IF k = EOF THEN inpos ELSE inpos + 1
       /\ IF k = EOF
            THEN CASE ce = BF_EOF_ZERO   -> cm' = Stored(0)  /\ UNCHANGED <<pc, stdout>>
                   [] ce = BF_EOF_NEGONE -> cm' = Stored(0 - 1) /\ UNCHANGED <<pc, stdout>>
                   [] ce = BF_EOF_MIN    -> cm' = Stored(va) /\ UNCHANGED <<pc, stdout>>
                   [] ce = BF_EOF_MAX    -> cm' = Stored(vb) /\ UNCHANGED <<pc, stdout>>
                   [] ce = BF_EOF_NOCHG  -> cm' = Stored(k)  /\ UNCHANGED <<pc, stdout>>
                   [] OTHER              -> die /\ UNCHANGED cm
            ELSE cm' = Stored(k) /\ UNCHANGED <<pc, stdout>>
  /\ j' = IF pc' = "exit1" THEN j ELSE j - 1
  /\ UNCHANGED <<config, fpos, im, in, ii, ls, ln, ci, written, ran>>

\* Lines 258, 274: the loop of ',' is over.
InEnd ==
  /\ pc = "in" /\ j = 0
  /\ pc' = "run"
  /\ ii' = ii + 1
  /\ UNCHANGED <<config, fpos, inpos, stdout, im, in, ls, ln, ci, cm, j, written, ran>>

\* Lines 275-276: '.' starts its loop.
Out ==
  /\ Running
  /\ \E ins \in Fetch :
       /\ ins.instruction = BF_OP_OUT
       /\ j' = ins.quantity
  /\ pc' = "out"
  /\ ran' = TRUE
  /\ UNCHANGED <<config, fpos, inpos, stdout, im, in, ii, ls, ln, ci, cm, written>>

\* Lines 276-277: one repetition of '.': putchar(cm[ci]).
OutRep ==
  /\ pc = "out" /\ j # 0
  /\ Len(stdout) < MaxOut
  /\ \E c \in CellRead :
       /\ stdout' = Append(stdout, Byte(c))
       /\ written' = Append(written, Byte(c))
  /\ j' = j - 1
  /\ UNCHANGED <<config, fpos, inpos, im, in, ii, ls, ln, ci, cm, pc, ran>>

\* Lines 276, 278: the loop of '.' is over.
OutEnd ==
  /\ pc = "out" /\ j = 0
  /\ pc' = "run"
  /\ ii' = ii + 1
  /\ UNCHANGED <<config, fpos, inpos, stdout, im, in, ls, ln, ci, cm, j, written, ran>>

\* The value read from a loop field.
Target(ins) == IF ins.loop = Indeterminate THEN Garbage ELSE {ins.loop}

\* RunLStart with a defect: the test of the cell is the other way round.
RunLStartInverted ==
  /\ Running
  /\ \E ins \in Fetch, c \in CellRead :
       /\ ins.instruction = BF_OP_LSTART
       /\ IF c # 0
            THEN \E t \in Target(ins) : ii' = t + 1
            ELSE ii' = ii + 1
  /\ ran' = TRUE
  /\ UNCHANGED <<pc, stdout, ci, cm>> /\ NoIO

\* Lines 279-282: '['.
RunLStart ==
  /\ Running
  /\ \E ins \in Fetch, c \in CellRead :
       /\ ins.instruction = BF_OP_LSTART
       /\ IF c = 0
            THEN \E t \in Target(ins) : ii' = t + 1
            ELSE ii' = ii + 1
  /\ ran' = TRUE
  /\ UNCHANGED <<pc, stdout, ci, cm>> /\ NoIO

\* RunLEnd with a defect: the test of the cell is the other way round.
RunLEndInverted ==
  /\ Running
  /\ \E ins \in Fetch, c \in CellRead :
       /\ ins.instruction = BF_OP_LEND
       /\ IF c = 0
            THEN \E t \in Target(ins) : ii' = t + 1
            ELSE ii' = ii + 1
  /\ ran' = TRUE
  /\ UNCHANGED <<pc, stdout, ci, cm>> /\ NoIO

\* Lines 283-286: ']'.
RunLEnd ==
  /\ Running
  /\ \E ins \in Fetch, c \in CellRead :
       /\ ins.instruction = BF_OP_LEND
       /\ IF c # 0
            THEN \E t \in Target(ins) : ii' = t + 1
            ELSE ii' = ii + 1
  /\ ran' = TRUE
  /\ UNCHANGED <<pc, stdout, ci, cm>> /\ NoIO

\* Line 287: what was fetched is no instruction (only before the array).
RunOther ==
  /\ Running
  /\ \E ins \in Fetch : ins.instruction \notin Operators
  /\ ii' = ii + 1
  /\ ran' = TRUE
  /\ UNCHANGED <<pc, stdout, ci, cm>> /\ NoIO

\* An access outside im or cm that the memory protection catches.
WildAccess ==
  /\ \/ Running /\ ii < 0
     \/ /\ Running /\ ~InCells
        /\ \E ins \in Fetch :
             ins.instruction \in {BF_OP_VINC, BF_OP_VDEC, BF_OP_LSTART, BF_OP_LEND}
     \/ pc \in {"in", "out"} /\ j # 0 /\ ~InCells
  /\ crash
  /\ UNCHANGED <<config, fpos, inpos, im, in, ii, ls, ln, ci, cm, j, written, ran>>

\* Lines 183, 289-294: the cursor is past the last instruction.
RunEnd ==
  /\ pc = "run" /\ ii >= in
  /\ pc' = "exit0"
  /\ UNCHANGED <<config, fpos, inpos, stdout, im, in, ii, ls, ln, ci, cm, j, written, ran>>

Next ==
  \/ Fold \/ LStart \/ LEnd \/ Skip \/ ModeSwitch
  \/ DumpOne \/ DumpEnd
  \/ VInc \/ VDec \/ PInc \/ PDec
  \/ In \/ InRep \/ InEnd \/ Out \/ OutRep \/ OutEnd
  \/ RunLStart \/ RunLEnd \/ RunOther \/ WildAccess \/ RunEnd

Spec == Init /\ [][Next]_vars

\* The runs taken to their end.  main() is one sequential process that
\* nothing holds back: while a step is possible, one is taken.
InitToEnd ==
  /\ InitMain
  /\ \/ InitCounting \/ InitHello \/ InitShort

FairSpec == InitToEnd /\ [][Next]_vars /\ WF_vars(Next)

\* ================================================================== claims
\* The instruction about to be executed is a real one on a real cell.
AtInstr(ops) ==
  /\ Running /\ ii >= 0 /\ InCells
  /\ im[ii].instruction \in ops

\* cell + n or cell - n (pointer + n or pointer - n) of the instruction
\* about to be executed.
ValueCandidate ==
  IF im[ii].instruction = BF_OP_VINC THEN cm[ci] + im[ii].quantity
  ELSE cm[ci] - im[ii].quantity
PointerCandidate ==
  IF im[ii].instruction = BF_OP_PINC THEN ci + im[ii].quantity
  ELSE ci - im[ii].quantity

\* C1: under the Wrap value policy, an IncValue(n) or DecValue(n) on an
\* in-range cell whose candidate v leaves [value_min, value_max] stores a
\* value inside the range that is congruent to v modulo the range's size.
C1_ValueWrapInRange ==
  [][ ( /\ AtInstr({BF_OP_VINC, BF_OP_VDEC})
        /\ vw = BF_END_WRAP /\ va <= vb
        /\ cm[ci] \in va..vb
        /\ ValueCandidate \notin va..vb )
      => ( /\ pc' = "run"
           /\ cm'[ci] \in va..vb
           /\ (cm'[ci] - ValueCandidate) % (vb - va + 1) = 0 ) ]_vars

\* C2: under the Wrap pointer policy, an IncPointer(n) or DecPointer(n)
\* whose candidate p leaves [0, cell_count - 1] sets the pointer to p mod
\* cell_count; DecPointer(1) at 0 with 10 cells leaves the pointer at 9.
C2_PointerWrapModCells ==
  [][ ( /\ AtInstr({BF_OP_PINC, BF_OP_PDEC})
        /\ cw = BF_END_WRAP
        /\ PointerCandidate \notin 0..(cn - 1) )
      => ( /\ pc' = "run"
           /\ ci' = PointerCandidate % cn ) ]_vars

\* C3: while instructions execute, the cell pointer stays inside
\* [0, cell_count - 1], under every pointer policy.
C3_PointerInRange ==
  pc \in {"run", "in", "out"} => ci \in 0..(cn - 1)

\* C4: under the NoChange EOF policy, a repetition of Read that finds the
\* input exhausted leaves the current cell as it was.
C4_EofNoChangeKeepsCell ==
  [][ ( /\ pc = "in" /\ j # 0 /\ InCells
        /\ ce = BF_EOF_NOCHG
        /\ inpos >= Len(stdin) )
      => cm'[ci] = cm[ci] ]_vars

\* What a repetition of Read is to store: the byte read or, at the end of
\* the input, the value the EOF policy names.
ReadValue ==
  IF inpos < Len(stdin) THEN stdin[inpos + 1]
  ELSE CASE ce = BF_EOF_ZERO   -> 0
         [] ce = BF_EOF_MIN    -> va
         [] ce = BF_EOF_MAX    -> vb
         [] ce = BF_EOF_NEGONE -> 0 - 1

\* C5: a repetition of Read that finds the input exhausted stores 0 under
\* Zero, value_min under MinValue, value_max under MaxValue and -1 under
\* NegativeOne, in or out of the range; one that obtains a byte stores the
\* byte's value, which lies in 0..255.
C5_ReadStores ==
  [][ ( /\ pc = "in" /\ j # 0 /\ InCells
        /\ \/ inpos < Len(stdin)
           \/ ce \in {BF_EOF_ZERO, BF_EOF_MIN, BF_EOF_MAX, BF_EOF_NEGONE} )
      => ( /\ pc' = "in"
           /\ cm'[ci] = ReadValue
           /\ inpos < Len(stdin) => cm'[ci] \in 0..255 ) ]_vars

\* C5 happens: -1 was stored at the end of the input into a cell whose
\* range starts at 0.
C5_Witness ==
  /\ pc = "in" /\ j = 0
  /\ ce = BF_EOF_NEGONE /\ va = 0 /\ stdin = <<>>
  /\ cm[ci] = 0 - 1

\* '[' minus ']' among the first n characters of s.
Balance(s, n) ==
  Cardinality({x \in 1..n : s[x] = BF_OP_LSTART})
    - Cardinality({x \in 1..n : s[x] = BF_OP_LEND})

\* Some ']' of s comes while no '[' is pending.
HasUnmatchedClose(s) == \E n \in 1..Len(s) : Balance(s, n) < 0

\* No ']' of s is unmatched, and some '[' is still pending at its end.
HasUnmatchedOpen(s) == ~HasUnmatchedClose(s) /\ Balance(s, Len(s)) > 0

WellFormed(s) == ~HasUnmatchedClose(s) /\ Balance(s, Len(s)) = 0

\* C6: a source with an unmatched ']' executes no instruction and does not
\* end with status 0 (it is to end with status 1; the runs that the memory
\* protection ends during the scan are left aside here).
C6_UnmatchedCloseFails ==
  (HasUnmatchedClose(file) /\ pc # "crashed") => (~ran /\ pc # "exit0")

\* C7: a source that leaves a '[' pending at the end of the scan executes
\* no instruction and ends with status 1.
C7_UnmatchedOpenFails ==
  HasUnmatchedOpen(file) => (~ran /\ pc \notin {"exit0", "crashed"})

\* The opcode of instruction x, and the nesting depth after instruction b
\* counted from instruction a.
Op(x) == im[x].instruction
Depth(a, b) ==
  Cardinality({x \in a..b : Op(x) = BF_OP_LSTART})
    - Cardinality({x \in a..b : Op(x) = BF_OP_LEND})

\* Instruction c is the LoopClose that closes the LoopOpen i: the first
\* place after i where the depth is back to what it was before i.
Closes(i, c) ==
  /\ c > i /\ Op(c) = BF_OP_LEND
  /\ Depth(i, c) = 0
  /\ \A x \in i..(c - 1) : Depth(i, x) > 0

\* C8: once a well-formed source is compiled, every LoopOpen i has as its
\* target the LoopClose j > i that closes it, whose target is i, and every
\* LoopClose is the target of the LoopOpen that is its target.
C8_LoopMatching ==
  (pc # "compile" /\ WellFormed(file)) =>
    \A i \in 0..(in - 1) :
      /\ Op(i) = BF_OP_LSTART =>
           \E c \in 0..(in - 1) :
             Closes(i, c) /\ im[i].loop = c /\ im[c].loop = i
      /\ Op(i) = BF_OP_LEND =>
           /\ im[i].loop \in 0..(i - 1)
           /\ Op(im[i].loop) = BF_OP_LSTART
           /\ im[im[i].loop].loop = i

\* C8 happens: "[[]]" is compiled, a loop inside a loop.
C8_Witness ==
  /\ pc = "run" /\ file = <<BF_OP_LSTART, BF_OP_LSTART, BF_OP_LEND, BF_OP_LEND>>
  /\ im[0].loop = 3 /\ im[1].loop = 2 /\ im[2].loop = 1 /\ im[3].loop = 0

\* The operator characters of s, in order.
Strip(s) == SelectSeq(s, LAMBDA c : c \in Operators)

\* The maximal runs of equal consecutive elements of s, as <<element, length>>.
RECURSIVE Runs(_)
Runs(s) ==
  IF s = <<>> THEN <<>>
  ELSE LET r == Runs(Tail(s)) IN
         IF r # <<>> /\ r[1][1] = Head(s)
           THEN <<<<Head(s), r[1][2] + 1>>>> \o Tail(r)
           ELSE <<<<Head(s), 1>>>> \o r

Arithmetic == {BF_OP_VINC, BF_OP_VDEC, BF_OP_PINC, BF_OP_PDEC}

\* The runs of '+', '-', '>' and '<' of s.
ArithmeticRuns(s) == SelectSeq(Runs(s), LAMBDA r : r[1] \in Arithmetic)

\* The '+', '-', '>' and '<' instructions compiled so far, as
\* <<opcode, count>>, in the order of im.
ArithmeticInstructions ==
  SelectSeq([x \in 1..in |-> <<im[x - 1].instruction, im[x - 1].quantity>>],
            LAMBDA r : r[1] \in Arithmetic)

\* C9 as stated: once a source is compiled, its '+', '-', '>' and '<'
\* instructions are, in order, the maximal runs of equal consecutive
\* characters of the source, one instruction a run, the count its length.
C9_FoldingOfFileRuns ==
  pc \notin {"compile", "crashed"} =>
    ArithmeticInstructions = ArithmeticRuns(file)

\* C9 as amended: the runs are those of the source with its non-operator
\* characters deleted (of the part of it read so far, at any moment).
C9_FoldingOfOperatorRuns ==
  ArithmeticInstructions = ArithmeticRuns(Strip(SubSeq(file, 1, fpos)))

\* C9 happens: "+#+" is compiled to one IncValue of count 2.
C9_Witness ==
  /\ pc = "run" /\ file = <<BF_OP_VINC, OtherChar, BF_OP_VINC>>
  /\ in = 1 /\ im[0].instruction = BF_OP_VINC /\ im[0].quantity = 2

\* The run was ended by an instruction that left its range under the
\* Error policy: die() leaves ii at that instruction.
ErrorAbort ==
  /\ pc = "exit1" /\ ran /\ ii \in 0..(in - 1)
  /\ \/ im[ii].instruction \in {BF_OP_VINC, BF_OP_VDEC} /\ vw = BF_END_ERROR
     \/ im[ii].instruction \in {BF_OP_PINC, BF_OP_PDEC} /\ cw = BF_END_ERROR

\* C10: when an instruction leaves its range under the Error policy, the
\* run ends there with status 1 and standard output holds exactly the bytes
\* that Write instructions emitted before.
C10_ErrorAbortOutput ==
  ErrorAbort => stdout = written

\* C11: in a well-formed program, a LoopOpen on a zero cell is followed by
\* the instruction after the LoopClose that closes it, and on a non-zero
\* cell by its body; a LoopClose on a non-zero cell is followed by the
\* instruction after the LoopOpen it closes, and on a zero cell by the next
\* one.  So the cursor gets past a LoopClose only with the cell zero, and
\* to the first instruction of a body only with the cell non-zero.
C11_LoopControlFlow ==
  [][ ( /\ WellFormed(file) /\ InCells /\ pc \in {"run", "in", "out"}
        /\ ii' # ii )
      => ( /\ pc' = "run"
           /\ (Op(ii) = BF_OP_LSTART /\ cm[ci] = 0) =>
                \E c \in 0..(in - 1) : Closes(ii, c) /\ ii' = c + 1
           /\ (Op(ii) = BF_OP_LSTART /\ cm[ci] # 0) => ii' = ii + 1
           /\ (Op(ii) = BF_OP_LEND /\ cm[ci] # 0) =>
                \E o \in 0..(in - 1) : Closes(o, ii) /\ ii' = o + 1
           /\ (Op(ii) = BF_OP_LEND /\ cm[ci] = 0) => ii' = ii + 1
           /\ Op(ii' - 1) = BF_OP_LEND => cm'[ci'] = 0
           /\ Op(ii' - 1) = BF_OP_LSTART => cm'[ci'] # 0 ) ]_vars

\* C11 happens: in "+[+]" the LoopClose found the cell at 2 and the body
\* is entered again, at the instruction after the LoopOpen.
C11_Witness ==
  /\ pc = "run" /\ ran
  /\ file = <<BF_OP_VINC, BF_OP_LSTART, BF_OP_VINC, BF_OP_LEND>>
  /\ ii = 2 /\ cm[0] = 2

\* A run has ended with status 0, the pointer at 0 and the cell there at 0.
EndedAtZero ==
  IF pc = "exit0" /\ mode = BF_MODE_RUN THEN ci = 0 /\ cm[ci] = 0 ELSE FALSE

\* C12: with no option given (or fewer cells), the source of k "+" (1 <= k <= value_max)
\* followed by "[-]" comes to its end with status 0, the pointer at 0 and
\* the cell there at 0; for k = 1 the body "-" is executed, and the
\* LoopClose never sends the cursor back to it: it runs exactly once.
C12_CountingLoopTerminates ==
  /\ ( /\ Defaults
       /\ \E k \in 1..vb : file = CountingLoop(k) )
     => <>EndedAtZero
  /\ (Defaults /\ file = CountingLoop(1))
     => <>(pc = "run" /\ ii = 2 /\ ran)
  /\ [][ (Defaults /\ file = CountingLoop(1) /\ pc = "run" /\ ii = 3)
         => ii' # 2 ]_vars

\* C12 happens: "+++[-]" has ended, after its LoopClose was passed.
C12_Witness ==
  /\ Defaults /\ cn = 1 /\ file = CountingLoop(3)
  /\ pc = "exit0" /\ ii = 4 /\ ci = 0 /\ cm[0] = 0

\* C15: with no option given (or fewer cells), the Hello source comes to its end with
\* status 0, and standard output then holds the bytes 72, 101, 108, 108,
\* 111 and nothing else.
C15_HelloOutput ==
  ( Defaults /\ file = Hello )
    => <>(pc = "exit0" /\ stdout = <<72, 101, 108, 108, 111>>)

\* C15 happens: the Hello source has ended.
C15_Witness ==
  /\ Defaults /\ cn = HelloCells /\ file = Hello
  /\ pc = "exit0" /\ Len(stdout) = 5 /\ ci = 3 /\ cm[ci] = 111

\* C13: under the Saturate value policy, an IncValue(n) whose candidate
\* exceeds value_max stores value_max, a DecValue(n) whose candidate falls
\* below value_min stores value_min, and a candidate inside the range is
\* stored as it is.
C13_ValueSaturate ==
  [][ ( /\ AtInstr({BF_OP_VINC, BF_OP_VDEC})
        /\ vw = BF_END_IGNORE /\ va <= vb )
      => ( /\ pc' = "run"
           /\ (Op(ii) = BF_OP_VINC /\ ValueCandidate > vb) => cm'[ci] = vb
           /\ (Op(ii) = BF_OP_VDEC /\ ValueCandidate < va) => cm'[ci] = va
           /\ ValueCandidate \in va..vb => cm'[ci] = ValueCandidate ) ]_vars

\* C13 happens: "+++" on the range 0..2 has stored 2, not 3.
C13_Witness ==
  /\ vw = BF_END_IGNORE /\ va = 0 /\ vb = 2
  /\ file = <<BF_OP_VINC, BF_OP_VINC, BF_OP_VINC>>
  /\ pc = "run" /\ ii = 1 /\ cm[0] = 2

\* Some option holds a letter that is none of its recognised values.
BadConfiguration ==
  \/ vw \notin {BF_END_ERROR, BF_END_IGNORE, BF_END_WRAP}
  \/ cw \notin {BF_END_ERROR, BF_END_IGNORE, BF_END_WRAP}
  \/ ce \notin {BF_EOF_ZERO, BF_EOF_MIN, BF_EOF_MAX, BF_EOF_NEGONE, BF_EOF_NOCHG}
  \/ mode \notin {BF_MODE_DUMP, BF_MODE_RUN}

\* C14: a run whose value policy, pointer policy, EOF policy or mode holds
\* an unrecognised value never ends with status 0, whether or not the
\* program comes to overflow, underflow or the end of the input.
C14_BadConfigurationNeverExits0 ==
  BadConfiguration => pc # "exit0"

\* C16: Write(n) appends exactly n bytes to the output, each the current
\* cell's value modulo 256 (a byte in 0..255, for negative values too), and
\* leaves the cells and the pointer as they were: it starts with n
\* repetitions to go, each repetition appends one such byte, and it is over
\* when none is left.  ",." at the end of the input under the Zero policy
\* writes one byte, 0.
C16_Write ==
  /\ [][ ( AtInstr({BF_OP_OUT}) =>
              ( /\ pc' = "out" /\ j' = im[ii].quantity
                /\ UNCHANGED <<stdout, cm, ci, ii>> ) )
         /\
          ( (pc = "out" /\ j # 0 /\ InCells) =>
              ( /\ pc' = "out" /\ j' = j - 1
                /\ \E b \in 0..255 :
                     /\ (b - cm[ci]) % 256 = 0
                     /\ stdout' = Append(stdout, b)
                /\ UNCHANGED <<cm, ci, ii>> ) )
         /\
          ( (pc = "out" /\ j = 0) =>
              ( /\ pc' = "run" /\ ii' = ii + 1
                /\ UNCHANGED <<stdout, cm, ci>> ) ) ]_vars
  /\ []( ( /\ file = <<BF_OP_IN, BF_OP_OUT>>
           /\ ce = BF_EOF_ZERO /\ stdin = <<>>
           /\ pc = "exit0" )
         => stdout = <<0>> )

\* C16 happens: ",.." under the NegativeOne policy, at the end of the
\* input, has written the cell's -1 twice, as 255.
C16_Witness ==
  /\ file = <<BF_OP_IN, BF_OP_OUT, BF_OP_OUT>>
  /\ ce = BF_EOF_NEGONE /\ stdin = <<>>
  /\ pc = "exit0" /\ cm[0] = 0 - 1 /\ stdout = <<255, 255>>

\* The configuration and the input that C17 is about: 0 lies in the range,
\* the value policy is Saturate or Wrap, every input byte lies in the
\* range, and the EOF policy substitutes a value that lies in the range.
RangePreserving ==
  /\ 0 \in va..vb
  /\ vw \in {BF_END_IGNORE, BF_END_WRAP}
  /\ \A x \in 1..Len(stdin) : stdin[x] \in va..vb
  /\ \/ ce \in {BF_EOF_ZERO, BF_EOF_MIN, BF_EOF_MAX}
     \/ ce = BF_EOF_NEGONE /\ 0 - 1 \in va..vb

\* C17: under such a configuration every cell holds a value of
\* [value_min, value_max], whatever instructions were executed.
C17_CellsInRange ==
  (RangePreserving /\ pc \in {"run", "in", "out", "exit0", "exit1"}
     /\ mode = BF_MODE_RUN)
    => \A x \in DOMAIN cm : cm[x] \in va..vb

\* The Read about to end (its repetitions are done) is the only Read of a
\* program without loops: it started with all of the input remaining.
SoleReadDone ==
  /\ pc = "in" /\ j = 0 /\ InCells
  /\ \A x \in 0..(in - 1) :
       x # ii => Op(x) \notin {BF_OP_IN, BF_OP_LSTART, BF_OP_LEND}

\* C18: Read(n) with m bytes of input remaining consumes min(n, m) of
\* them; with m >= n the cell ends as the n-th byte, and with m < n as the
\* value the EOF policy substitutes or, under NoChange, as the last byte
\* that was read.
C18_RepeatedRead ==
  SoleReadDone =>
    LET n == im[ii].quantity
        m == Len(stdin)
    IN /\ inpos = (IF n <= m THEN n ELSE m)
       /\ n <= m => cm[ci] = stdin[n]
       /\ (n > m /\ ce = BF_EOF_ZERO) => cm[ci] = 0
       /\ (n > m /\ ce = BF_EOF_MIN) => cm[ci] = va
       /\ (n > m /\ ce = BF_EOF_MAX) => cm[ci] = vb
       /\ (n > m /\ ce = BF_EOF_NEGONE) => cm[ci] = 0 - 1
       /\ (n > m /\ m > 0 /\ ce = BF_EOF_NOCHG) => cm[ci] = stdin[m]

\* The instructions that the runs r stand for, as <<opcode, count>>: a
\* run of '+', '-', '>', '<', ',' or '.' is one instruction, a run of k
\* brackets is k instructions, whose count is never assigned.
RECURSIVE Unfolded(_)
Unfolded(r) ==
  IF r = <<>> THEN <<>>
  ELSE (IF r[1][1] \in Foldable THEN <<r[1]>>
        ELSE [x \in 1..r[1][2] |-> <<r[1][1], Indeterminate>>])
       \o Unfolded(Tail(r))

\* The instructions compiled so far, as <<opcode, count>>.
Compiled == [x \in 1..in |-> <<im[x - 1].instruction, im[x - 1].quantity>>]

\* C19: the instructions compiled from a source are those compiled from
\* the source with its non-operator characters deleted: at any moment of
\* the scan their opcodes and counts are a function of the operator
\* characters read so far, and so are the targets of the brackets that
\* are matched (while no unmatched ']' has made the scan write outside
\* the loop stack).  A source and the source without its non-operator
\* characters have the same operator characters.
C19_IgnoredCharacters ==
  pc # "crashed" =>
    /\ Compiled = Unfolded(Runs(Strip(SubSeq(file, 1, fpos))))
    /\ ~HasUnmatchedClose(SubSeq(file, 1, fpos)) =>
         \A i, c \in 0..(in - 1) :
           Closes(i, c) => (im[i].loop = c /\ im[c].loop = i)

\* C19 happens: "[#]" is compiled to a LoopOpen and the LoopClose that
\* closes it, as "[]" is.
C19_Witness ==
  /\ pc = "run" /\ file = <<BF_OP_LSTART, OtherChar, BF_OP_LEND>>
  /\ in = 2 /\ im[0].loop = 1 /\ im[1].loop = 0

\* Lines 185-256 as a function: what '+', '-', '>' or '<' of count q makes
\* of the value v it works on (the current cell, or the pointer), and
\* whether the run goes on (ok) or dies, v untouched.
Exec(op, q, v) ==
  LET end(over, policy, bound, low, high) ==
        IF over
          THEN CASE policy = BF_END_ERROR  -> [ok |-> FALSE, v |-> v]
                 [] policy = BF_END_IGNORE -> [ok |-> TRUE, v |-> bound]
                 [] policy = BF_END_WRAP   ->
                      [ok |-> TRUE,
                       v |-> wrap(IF op \in {BF_OP_VINC, BF_OP_PINC}
                                  THEN v + q ELSE v - q, low, high)]
                 [] OTHER                  -> [ok |-> FALSE, v |-> v]
          ELSE [ok |-> TRUE,
                v |-> IF op \in {BF_OP_VINC, BF_OP_PINC} THEN v + q ELSE v - q]
  IN CASE op = BF_OP_VINC -> end(v + q > vb, vw, vb, va, vb)
       [] op = BF_OP_VDEC -> end(v - q < va, vw, va, va, vb)
       [] op = BF_OP_PINC -> end(v + q > cn - 1, cw, cn - 1, 0, cn)
       [] op = BF_OP_PDEC -> end(v - q < 0, cw, 0, 0, cn)

\* The instruction of count 1, n times in succession from r, stopping at
\* the first that dies.
RECURSIVE Repeat(_, _, _)
Repeat(op, n, r) ==
  IF n = 0 \/ ~r.ok THEN r
  ELSE Repeat(op, n - 1, Exec(op, 1, r.v))

\* An IncValue, DecValue, IncPointer or DecPointer of count n >= 1 is about
\* to be executed, under the Error, Saturate or Wrap policy.
AtFolded ==
  /\ Running /\ ii >= 0
  /\ Op(ii) \in Arithmetic /\ im[ii].quantity >= 1
  /\ va <= vb
  /\ IF Op(ii) \in {BF_OP_VINC, BF_OP_VDEC}
       THEN InCells /\ vw \in {BF_END_ERROR, BF_END_IGNORE, BF_END_WRAP}
       ELSE cw \in {BF_END_ERROR, BF_END_IGNORE, BF_END_WRAP}

\* What n instructions of count 1 make of the state before the folded
\* instruction.
OneByOne ==
  Repeat(Op(ii), im[ii].quantity,
         [ok |-> TRUE,
          v |-> IF Op(ii) \in {BF_OP_VINC, BF_OP_VDEC} THEN cm[ci] ELSE ci])

\* The cells and the pointer after the step are those of OneByOne.
SameState ==
  IF Op(ii) \in {BF_OP_VINC, BF_OP_VDEC}
    THEN cm' = [cm EXCEPT ![ci] = OneByOne.v] /\ ci' = ci
    ELSE ci' = OneByOne.v /\ cm' = cm

\* C20 as stated: a folded instruction of count n leaves the same cells,
\* the same pointer and the same outcome, normal or aborted, as n
\* instructions of count 1 in succession, stopped at the first that aborts.
C20_FoldingPreservesState ==
  [][ AtFolded
      => ( /\ pc' = (IF OneByOne.ok THEN "run" ELSE "exit1")
           /\ SameState ) ]_vars

\* C20 as amended: the same outcome and, when it is normal, the same cells
\* and pointer.
C20_FoldingPreservesOutcome ==
  [][ AtFolded
      => ( /\ pc' = (IF OneByOne.ok THEN "run" ELSE "exit1")
           /\ OneByOne.ok => SameState ) ]_vars

\* C20 happens: "+++" on the range 0..2 under the Error policy has died
\* with the cell still at 0; "+" three times dies with the cell at 2.
C20_Witness ==
  /\ vw = BF_END_ERROR /\ va = 0 /\ vb = 2 /\ stdin = <<>>
  /\ file = <<BF_OP_VINC, BF_OP_VINC, BF_OP_VINC>>
  /\ pc = "exit1" /\ ran /\ cm[0] = 0

====
